---- MODULE Spec2Model ----
(***************************************************************************)
(* The health-analyzer edge function (supabase/functions/health-analyzer/  *)
(* index.ts): the webhook dispatcher `serve`, the role assignment          *)
(* `handleNewUser` and the risk-scoring pipeline `handleNewReport`.        *)
(*                                                                         *)
(* One invocation handles one request.  JavaScript runs a handler without  *)
(* interruption up to its next `await`, so there is one action per         *)
(* stretch of code between two awaits: the action that consumes the        *)
(* answer of an awaited call runs the code up to the next awaited call.    *)
(* The answers of the collaborators (data store, weather provider, SMS     *)
(* provider) are chosen by the environment when they arrive.               *)
(***************************************************************************)
EXTENDS Integers, Sequences, FiniteSets, TLC

(***************************************************************************)
(* Bounds of the model.                                                    *)
(***************************************************************************)
\* largest score handed to the classifier in SpecRiskLevel
MaxScore == 120
\* largest number of rows of the reports table in SpecTrend
MaxRows == 2

(***************************************************************************)
(* Numbers of the program.                                                 *)
(***************************************************************************)
\* 7 * 24 * 60 * 60 * 1000 ms; the model counts time in days.  Instants are
\* compared as numbers: toISOString and the store's reading of a timestamp
\* keep the instant.
WindowDays == 7
VelocityFactor == 3
VelocityPoints == 40
ChildrenThreshold == 5
ChildrenPoints == 50
HighTotal == 15
HighTotalPoints == 30
ModerateTotal == 8
ModerateTotalPoints == 15
WaterPoints == 10
RainPoints == 10
CriticalMin == 75
HighMin == 50
WarningMin == 25
LowMin == 10
StatusOk == 200
StatusBadRequest == 400

(***************************************************************************)
(* JavaScript values.                                                      *)
(***************************************************************************)
\* null / undefined in a numeric field: a number outside every field's range
Null == -999
\* null / undefined in a text field
NullText == "<null>"
\* `x || 0`
orZero(x) == IF x = Null THEN 0 ELSE x
\* truthiness of a numeric field: null, undefined and 0 are falsy
truthy(x) == x # Null /\ x # 0
\* truthiness of a text field: null, undefined and "" are falsy
truthyText(s) == s # NullText /\ s # ""
\* `a > b` on numbers: null converts to 0 (undefined to NaN, which compares
\* false as well: b is never negative where this is used)
gt(a, b) == orZero(a) > b

UpperCase == <<"A","B","C","D","E","F","G","H","I","J","K","L","M",
               "N","O","P","Q","R","S","T","U","V","W","X","Y","Z">>
LowerCase == <<"a","b","c","d","e","f","g","h","i","j","k","l","m",
               "n","o","p","q","r","s","t","u","v","w","x","y","z">>
lowerChar(c) ==
  IF \E i \in 1..26 : UpperCase[i] = c
  THEN LowerCase[CHOOSE i \in 1..26 : UpperCase[i] = c]
  ELSE c
\* String.prototype.toLowerCase
RECURSIVE toLowerCase(_)
toLowerCase(s) ==
  IF s = "" THEN ""
  ELSE lowerChar(SubSeq(s, 1, 1)) \o toLowerCase(SubSeq(s, 2, Len(s)))
\* String.prototype.includes
includes(s, sub) ==
  \E i \in 1..(Len(s) - Len(sub) + 1) : SubSeq(s, i, i + Len(sub) - 1) = sub
\* Array.prototype.join
RECURSIVE join(_, _)
join(arr, sep) ==
  IF Len(arr) = 0 THEN ""
  ELSE IF Len(arr) = 1 THEN arr[1]
  ELSE arr[1] \o sep \o join(Tail(arr), sep)
\* recentReports.reduce((sum, r) => sum + r.diarrhea_cases, 0)
RECURSIVE sumDiarrhea(_)
sumDiarrhea(rows) ==
  IF Len(rows) = 0 THEN 0
  ELSE rows[1].diarrhea_cases + sumDiarrhea(Tail(rows))
\* .limit(n)
limit(rows, n) == IF Len(rows) <= n THEN rows ELSE SubSeq(rows, 1, n)

(***************************************************************************)
(* handleNewUser: the allowlist query.                                     *)
(***************************************************************************)
\* faulty variant: the .eq("phone_number", ...) filter is dropped
selectApprovedNoFilter(table, userPhoneNumber) == limit(table, 1)
\* .from("pre_approved_officials").select("phone_number")
\*   .eq("phone_number", userPhoneNumber).limit(1)
selectApproved(table, userPhoneNumber) ==
  limit(SelectSeq(table, LAMBDA r : r.phone_number = userPhoneNumber), 1)

(***************************************************************************)
(* handleNewReport: the five signals.  An assessment is the pair of the    *)
(* accumulators riskScore and analysisNotes.                               *)
(***************************************************************************)
NoteVelocity == "Case velocity is high (3x historical average)."
NoteChildren == "High number of cases in children under 5."
NoteHighTotal == "High total case count."
NoteModerateTotal == "Moderate total case count."
NoteRain == "Recent rain increases contamination risk."
noteWater(source) == "Shared water source (" \o source \o ") adds risk."

\* riskScore += points; analysisNotes.push(note)
addSignal(a, points, note) ==
  [riskScore |-> a.riskScore + points, analysisNotes |-> Append(a.analysisNotes, note)]

\* faulty variant: the upper end of the window is inclusive (.lte instead of .lt)
selectRecentInclusive(table, village, createdAt, sevenDaysAgo) ==
  SelectSeq(table, LAMBDA r : /\ r.village_name = village
                              /\ r.created_at <= createdAt
                              /\ r.created_at >= sevenDaysAgo)
\* .from("reports").select("diarrhea_cases").eq("village_name", ...)
\*   .lt("created_at", reportToAnalyze.created_at).gte("created_at", sevenDaysAgo)
selectRecent(table, village, createdAt, sevenDaysAgo) ==
  SelectSeq(table, LAMBDA r : /\ r.village_name = village
                              /\ r.created_at < createdAt
                              /\ r.created_at >= sevenDaysAgo)

\* faulty variant: `>=` for `>`
velocityHighOrEqual(diarrhea, rows) ==
  /\ sumDiarrhea(rows) > 0
  /\ orZero(diarrhea) * Len(rows) >= sumDiarrhea(rows) * VelocityFactor
\* avgDiarrhea > 0 && reportToAnalyze.diarrhea_cases > avgDiarrhea * 3, with
\* avgDiarrhea = sum / length kept as the exact fraction: length > 0 here, so
\* avg > 0 iff sum > 0, and d > (sum / length) * 3 iff d * length > sum * 3.
\* (The double arithmetic of the code agrees with the exact one at these sizes:
\* x / n * 3 rounds back to the exact value whenever that is an integer, and
\* is otherwise at least 1 / n away from every integer.)
velocityHigh(diarrhea, rows) ==
  /\ sumDiarrhea(rows) > 0
  /\ orZero(diarrhea) * Len(rows) > sumDiarrhea(rows) * VelocityFactor

\* 1. Temporal Analysis (Velocity)
temporalAnalysis(a, report, histError, rows) ==
  IF histError THEN a
  ELSE IF Len(rows) > 0 /\ velocityHigh(report.diarrhea_cases, rows)
       THEN addSignal(a, VelocityPoints, NoteVelocity)
       ELSE a

\* 2. Demographic Analysis
demographicAnalysis(a, report) ==
  IF gt(report.cases_in_children, ChildrenThreshold)
  THEN addSignal(a, ChildrenPoints, NoteChildren)
  ELSE a

totalCases(report) ==
  orZero(report.diarrhea_cases) + orZero(report.fever_cases) + orZero(report.vomiting_cases)

\* faulty variant: the second band is an `if` of its own, not an `else if`
symptomSeverityBothBands(a, report) ==
  LET b == IF totalCases(report) > HighTotal
           THEN addSignal(a, HighTotalPoints, NoteHighTotal) ELSE a
  IN IF totalCases(report) > ModerateTotal
     THEN addSignal(b, ModerateTotalPoints, NoteModerateTotal) ELSE b
\* 3. Symptom Severity Analysis
symptomSeverityAnalysis(a, report) ==
  IF totalCases(report) > HighTotal
  THEN addSignal(a, HighTotalPoints, NoteHighTotal)
  ELSE IF totalCases(report) > ModerateTotal
       THEN addSignal(a, ModerateTotalPoints, NoteModerateTotal)
       ELSE a

\* 4. Environmental Analysis (Water)
waterAnalysis(a, report) ==
  IF report.water_source_tested = "Community Well" \/ report.water_source_tested = "River"
  THEN addSignal(a, WaterPoints, noteWater(report.water_source_tested))
  ELSE a

\* faulty variant: the water signal is evaluated before the severity signal
scoreReportWaterFirst(report, histError, rows) ==
  symptomSeverityAnalysis(
    waterAnalysis(
      demographicAnalysis(
        temporalAnalysis([riskScore |-> 0, analysisNotes |-> <<>>], report, histError, rows),
        report),
      report),
    report)
\* the signals of steps 1 to 4 (water), in the order of the code
scoreReport(report, histError, rows) ==
  waterAnalysis(
    symptomSeverityAnalysis(
      demographicAnalysis(
        temporalAnalysis([riskScore |-> 0, analysisNotes |-> <<>>], report, histError, rows),
        report),
      report),
    report)

\* faulty variant: `lat || lon`
hasLocationEither(lat, lon) == truthy(lat) \/ truthy(lon)
\* if (lat && lon)
hasLocation(lat, lon) == truthy(lat) /\ truthy(lon)

(***************************************************************************)
(* The weather lookup.  A response of fetch is [rejects, ok, body]: fetch  *)
(* rejects on a transport failure; body is the value response.json()       *)
(* resolves to, or Unparseable when it rejects with a SyntaxError.         *)
(***************************************************************************)
Unparseable == [syntaxError |-> TRUE]
Thrown == [threw |-> TRUE, weatherInfo |-> "", recentRain |-> FALSE]
hasField(obj, f) == f \in DOMAIN obj

\* the body of the try block: what it leaves in weatherInfo and whether it
\* found rain, or that it threw
weatherTry(response) ==
  IF response.rejects THEN Thrown
  ELSE IF response.body = Unparseable THEN Thrown
  ELSE IF response.ok
  THEN LET weatherData == response.body IN
       \* weatherData.weather[0].description, weatherData.main.temp and
       \* weatherData.weather[0].main.toLowerCase() throw a TypeError on a
       \* body without them
       IF ~ /\ hasField(weatherData, "weather")
            /\ Len(weatherData.weather) > 0
            /\ hasField(weatherData, "main")
            /\ hasField(weatherData.weather[1], "main")
       THEN Thrown
       ELSE [threw |-> FALSE,
             weatherInfo |-> weatherData.weather[1].description \o ", "
                             \o ToString(weatherData.main.temp) \o "°C",
             recentRain |-> includes(toLowerCase(weatherData.weather[1].main), "rain")]
  ELSE LET errorBody == response.body IN
       [threw |-> FALSE,
        weatherInfo |-> "API Error: " \o
           (IF hasField(errorBody, "message") /\ truthyText(errorBody.message)
            THEN errorBody.message ELSE "Invalid Key?"),
        recentRain |-> FALSE]

\* faulty variant: no catch around the weather lookup
weatherNoCatch(outcome) == outcome
\* catch (error) { weatherInfo = "Fetch Error"; }
weatherCatch(outcome) ==
  IF outcome.threw
  THEN [threw |-> FALSE, weatherInfo |-> "Fetch Error", recentRain |-> FALSE]
  ELSE outcome

\* if (recentRain) { riskScore += 10; analysisNotes.push(...) }
rainAnalysis(a, outcome) ==
  IF outcome.recentRain THEN addSignal(a, RainPoints, NoteRain) ELSE a

(***************************************************************************)
(* 5. Determine Final Risk Level                                           *)
(***************************************************************************)
\* faulty variant: the Critical threshold is exclusive
riskLevelStrict(score) ==
  IF score > CriticalMin THEN "Critical"
  ELSE IF score >= HighMin THEN "High"
  ELSE IF score >= WarningMin THEN "Warning"
  ELSE IF score >= LowMin THEN "Low"
  ELSE "Normal"
riskLevelOf(score) ==
  IF score >= CriticalMin THEN "Critical"
  ELSE IF score >= HighMin THEN "High"
  ELSE IF score >= WarningMin THEN "Warning"
  ELSE IF score >= LowMin THEN "Low"
  ELSE "Normal"

\* faulty variant: only Critical alerts
alertsCriticalOnly(level) == level = "Critical"
\* if (riskLevel === "High" || riskLevel === "Critical")
alerts(level) == level = "High" \/ level = "Critical"

\* the body of the SMS
alertMessage(level, village, notes) ==
  "ALERT [" \o level \o "]: Outbreak risk in " \o village \o ". Analysis: "
  \o join(notes, " ") \o ". Check dashboard immediately."

\* the object handed to .update() on the reports table
reportUpdate(id, level, info, notes) ==
  [id |-> id, risk_level |-> level, weather_snapshot |-> info,
   analysis_notes |-> join(notes, " ")]

(***************************************************************************)
(* serve: routing.                                                         *)
(***************************************************************************)
\* faulty variant: the table is not looked at for the profile route
routeIgnoringTable(type, table) ==
  IF type = "INSERT" THEN "handleNewUser" ELSE "none"
route(type, table) ==
  IF type = "INSERT" /\ table = "profiles" THEN "handleNewUser"
  ELSE IF type = "INSERT" /\ table = "reports" THEN "handleNewReport"
  ELSE "none"

(***************************************************************************)
(* State.                                                                  *)
(***************************************************************************)
VARIABLES
  req,                    \* the request: [method, parses, type, table, record]
  pc,                     \* the await the invocation is suspended at
  status,                 \* status of the HTTP response, 0 while there is none
  pre_approved_officials, \* table: rows [phone_number]
  profileRole,            \* profiles.role of the row the profile event is about
  reports,                \* table: the earlier rows [village_name, created_at, diarrhea_cases]
  geo,                    \* [lat, lon] of the new report as get_report_with_geojson returns it
  reportRow,              \* the mutable fields of the new report's row
  now,                    \* Date.now(), in days
  calls,                  \* the requests issued to the collaborators so far
  lookupError,            \* handleNewUser: error of the allowlist query
  rpcError,               \* handleNewReport: error of the RPC
  historyError,           \* error of the history query
  recentReports,          \* data of the history query
  weatherResponse,        \* the answer of the weather provider
  updateError,            \* error of the report update
  smsResponse,            \* the answer of the SMS provider
  reportToAnalyze,
  riskScore,
  riskLevel,
  weatherInfo,
  analysisNotes

dbVars == <<pre_approved_officials, profileRole, reports, geo, reportRow, now>>
answerVars == <<lookupError, rpcError, historyError, recentReports, weatherResponse,
                updateError, smsResponse>>
localVars == <<reportToAnalyze, riskScore, riskLevel, weatherInfo, analysisNotes>>
vars == <<req, pc, status, dbVars, calls, answerVars, localVars>>

\* `undefined` where an object is expected
Undefined == [undefined |-> TRUE]
\* no answer yet
NoResponse == [pending |-> TRUE]
\* obj.f, which is undefined (here: null) on an object without f
textField(obj, f) == IF hasField(obj, f) THEN obj[f] ELSE NullText

NoCalls ==
  [lookup |-> 0, roleUpdate |-> 0, rpc |-> 0, history |-> 0, weather |-> 0,
   update |-> <<>>, sms |-> <<>>]

(***************************************************************************)
(* The requests and the data-store contents the model starts from.         *)
(***************************************************************************)
ProfileRecords == [id : {"u1"}, phone : {NullText, "", "+911", "+912"}]

ReportRecords ==
  [id : {"r1"}, village_name : {"Rampur"}, created_at : {10},
   diarrhea_cases : {Null, 1, 8}, fever_cases : {Null, 7, 8}, vomiting_cases : {0, 1},
   cases_in_children : {Null, 5, 6},
   water_source_tested : {"Community Well", "River", "Hand Pump"},
   lat : {Null}, lon : {Null}]

\* the coordinates the payload itself may carry
PayloadLocations == {<<Null, Null>>, <<13, 78>>}
\* the coordinates the RPC may return
Locations == {[lat |-> Null, lon |-> Null], [lat |-> 0, lon |-> 0],
              [lat |-> 13, lon |-> 0], [lat |-> 13, lon |-> 78]}
NoLocation == [lat |-> Null, lon |-> Null]

\* Rampur: rows of 2 and 3 cases inside the window, one of 9 cases older than
\* it and one of 9 cases not before the new report.  Sitapur: no cases.
HistoryTable ==
  << [village_name |-> "Rampur", created_at |-> 2, diarrhea_cases |-> 9],
     [village_name |-> "Rampur", created_at |-> 3, diarrhea_cases |-> 2],
     [village_name |-> "Rampur", created_at |-> 8, diarrhea_cases |-> 3],
     [village_name |-> "Rampur", created_at |-> 10, diarrhea_cases |-> 9],
     [village_name |-> "Sitapur", created_at |-> 5, diarrhea_cases |-> 0] >>

AllowLists ==
  { <<>>,
    << [phone_number |-> "+911"] >>,
    << [phone_number |-> "+913"], [phone_number |-> "+911"] >> }
DefaultAllowList == << [phone_number |-> "+911"] >>

post(type, table, record) ==
  [method |-> "POST", parses |-> TRUE, type |-> type, table |-> table, record |-> record]

ProfileRequests ==
  { post("INSERT", "profiles", r) : r \in ProfileRecords \cup {Undefined} }
ReportRequests ==
  { post("INSERT", "reports", [r EXCEPT !.lat = l[1], !.lon = l[2]]) :
      r \in ReportRecords, l \in PayloadLocations }
  \cup { post("INSERT", "reports", Undefined) }
SampleRecords ==
  { [id |-> "u1", phone |-> "+911"],
    CHOOSE r \in ReportRecords : r.diarrhea_cases = 8 /\ r.cases_in_children = 6,
    Undefined }
OtherRequests ==
  { post(tt[1], tt[2], r) :
      tt \in ({"INSERT", "UPDATE", "DELETE"} \X {"profiles", "reports", "villages"})
             \ {<<"INSERT", "profiles">>, <<"INSERT", "reports">>},
      r \in SampleRecords }
UnreadableRequests ==
  { [method |-> m, parses |-> FALSE, type |-> "INSERT", table |-> tb, record |-> Undefined] :
      m \in {"POST", "OPTIONS"}, tb \in {"profiles", "reports"} }
  \cup { [post("INSERT", tb, [id |-> "u1", phone |-> "+911"]) EXCEPT !.method = "OPTIONS"] :
           tb \in {"profiles", "reports"} }

isInsertOf(q, table) == q.method = "POST" /\ q.parses /\ q.type = "INSERT" /\ q.table = table

InitRest ==
  /\ status = 0
  /\ profileRole = "ASHA_WORKER"
  /\ reportRow = [risk_level |-> NullText, weather_snapshot |-> NullText,
                  analysis_notes |-> NullText]
  /\ calls = NoCalls
  /\ lookupError = FALSE
  /\ rpcError = FALSE
  /\ historyError = FALSE
  /\ recentReports = <<>>
  /\ weatherResponse = NoResponse
  /\ updateError = FALSE
  /\ smsResponse = "none"
  /\ reportToAnalyze = Undefined
  /\ riskLevel = "Normal"
  /\ weatherInfo = "No data"
  /\ analysisNotes = <<>>

\* the report of the trend cases: only the diarrhea count varies, and no
\* other signal fires
TrendRecords ==
  [id : {"r1"}, village_name : {"Rampur"}, created_at : {10},
   diarrhea_cases : {Null} \cup 0..7, fever_cases : {Null}, vomiting_cases : {0},
   cases_in_children : {5}, water_source_tested : {"Hand Pump"},
   lat : {Null}, lon : {Null}]
\* earlier rows: of the village or of another one; older than the window, on
\* its first day, or as new as the report itself
TrendRows ==
  [village_name : {"Rampur", "Sitapur"}, created_at : {2, 3, 10}, diarrhea_cases : {0, 2}]
TrendTables == UNION { [1..n -> TrendRows] : n \in 0..MaxRows }

\* A request in flight against a data store.  The tables a request cannot
\* reach are held at one content.
InitPipeline ==
  /\ req \in ProfileRequests \cup ReportRequests \cup OtherRequests \cup UnreadableRequests
  /\ pre_approved_officials \in
       (IF isInsertOf(req, "profiles") THEN AllowLists ELSE {DefaultAllowList})
  /\ geo \in (IF isInsertOf(req, "reports") /\ req.record # Undefined
              THEN Locations ELSE {NoLocation})
  /\ reports = HistoryTable
  /\ now = 10
  /\ pc = "start"
  /\ riskScore = 0
  /\ InitRest

\* A new report against every small reports table.
InitTrend ==
  /\ req \in { post("INSERT", "reports", r) : r \in TrendRecords }
  /\ pre_approved_officials = DefaultAllowList
  /\ geo = NoLocation
  /\ reports \in TrendTables
  /\ now = 10
  /\ pc = "start"
  /\ riskScore = 0
  /\ InitRest

Init == InitPipeline \/ InitTrend

(***************************************************************************)
(* serve.                                                                  *)
(***************************************************************************)
\* return new Response(..., { status })
respond(code) == status' = code /\ pc' = "done"

\* if (req.method === "OPTIONS") return new Response("ok", ...)
ServeOptions ==
  /\ pc = "start"
  /\ req.method = "OPTIONS"
  /\ respond(StatusOk)
  /\ UNCHANGED <<req, dbVars, calls, answerVars, localVars>>

\* req.json() rejects, or the body is not an object to destructure: caught
ServeUnreadable ==
  /\ pc = "start"
  /\ req.method # "OPTIONS"
  /\ ~req.parses
  /\ respond(StatusBadRequest)
  /\ UNCHANGED <<req, dbVars, calls, answerVars, localVars>>

\* neither branch of the routing is taken
ServeUnrouted ==
  /\ pc = "start"
  /\ req.method # "OPTIONS"
  /\ req.parses
  /\ route(req.type, req.table) = "none"
  /\ respond(StatusOk)
  /\ UNCHANGED <<req, dbVars, calls, answerVars, localVars>>

\* handleNewUser(record), up to the allowlist query
ServeNewUser ==
  /\ pc = "start"
  /\ req.method # "OPTIONS"
  /\ req.parses
  /\ route(req.type, req.table) = "handleNewUser"
  /\ IF req.record = Undefined
     THEN \* user.id throws a TypeError
          respond(StatusBadRequest) /\ UNCHANGED calls
     ELSE IF ~truthyText(textField(req.record, "phone"))
     THEN respond(StatusOk) /\ UNCHANGED calls
     ELSE /\ calls' = [calls EXCEPT !.lookup = @ + 1]
          /\ pc' = "lookup"
          /\ UNCHANGED status
  /\ UNCHANGED <<req, dbVars, answerVars, localVars>>

\* the allowlist query answers
LookupReturn ==
  /\ pc = "lookup"
  /\ \E error \in BOOLEAN :
       /\ lookupError' = error
       /\ LET approvedList == selectApproved(pre_approved_officials, textField(req.record, "phone")) IN
          IF error
          THEN respond(StatusOk) /\ UNCHANGED calls
          ELSE IF Len(approvedList) > 0
          THEN /\ calls' = [calls EXCEPT !.roleUpdate = @ + 1]
               /\ pc' = "roleUpdate"
               /\ UNCHANGED status
          ELSE respond(StatusOk) /\ UNCHANGED calls
  /\ UNCHANGED <<req, dbVars, rpcError, historyError, recentReports, weatherResponse,
                 updateError, smsResponse, localVars>>

\* the update of profiles.role answers; its error is not looked at
RoleUpdateReturn ==
  /\ pc = "roleUpdate"
  /\ \E error \in BOOLEAN :
       profileRole' = IF error THEN profileRole ELSE "OFFICIAL"
  /\ respond(StatusOk)
  /\ UNCHANGED <<req, pre_approved_officials, reports, geo, reportRow, now, calls,
                 answerVars, localVars>>

\* handleNewReport(record), up to the RPC
ServeNewReport ==
  /\ pc = "start"
  /\ req.method # "OPTIONS"
  /\ req.parses
  /\ route(req.type, req.table) = "handleNewReport"
  /\ IF req.record = Undefined
     THEN \* report.id throws a TypeError
          respond(StatusBadRequest) /\ UNCHANGED calls
     ELSE /\ calls' = [calls EXCEPT !.rpc = @ + 1]
          /\ pc' = "rpc"
          /\ UNCHANGED status
  /\ UNCHANGED <<req, dbVars, answerVars, localVars>>

\* the RPC answers: an error, no data, or the row with its clean coordinates
RpcReturn ==
  /\ pc = "rpc"
  /\ \E answer \in {"error", "empty", "row"} :
       LET reportData == IF answer = "row"
                         THEN [req.record EXCEPT !.lat = geo.lat, !.lon = geo.lon]
                         ELSE Undefined
       IN /\ rpcError' = (answer = "error")
          /\ reportToAnalyze' = IF reportData # Undefined THEN reportData ELSE req.record
  /\ riskScore' = 0
  /\ riskLevel' = "Normal"
  /\ weatherInfo' = "No data"
  /\ analysisNotes' = <<>>
  /\ calls' = [calls EXCEPT !.history = @ + 1]
  /\ pc' = "history"
  /\ UNCHANGED <<req, status, dbVars, lookupError, historyError, recentReports,
                 weatherResponse, updateError, smsResponse>>

\* steps 5 and 6 up to the update: the tier, and the update is issued
classifyAndUpdate(a, info) ==
  /\ riskScore' = a.riskScore
  /\ analysisNotes' = a.analysisNotes
  /\ weatherInfo' = info
  /\ riskLevel' = riskLevelOf(a.riskScore)
  /\ calls' = [calls EXCEPT !.update =
                 Append(@, reportUpdate(reportToAnalyze.id, riskLevelOf(a.riskScore),
                                        info, a.analysisNotes))]
  /\ pc' = "update"

\* the history query answers: steps 1 to 4, then the weather lookup or, without
\* coordinates, steps 5 and 6
HistoryReturn ==
  /\ pc = "history"
  /\ \E error \in BOOLEAN :
       LET rows == IF error THEN <<>>
                   ELSE selectRecent(reports, reportToAnalyze.village_name,
                                     reportToAnalyze.created_at, now - WindowDays)
           a == scoreReport(reportToAnalyze, error, rows)
       IN /\ historyError' = error
          /\ recentReports' = rows
          /\ IF hasLocation(reportToAnalyze.lat, reportToAnalyze.lon)
             THEN /\ riskScore' = a.riskScore
                  /\ analysisNotes' = a.analysisNotes
                  /\ calls' = [calls EXCEPT !.weather = @ + 1]
                  /\ pc' = "weather"
                  /\ UNCHANGED <<riskLevel, weatherInfo>>
             ELSE classifyAndUpdate(a, "Location could not be processed")
  /\ UNCHANGED <<req, status, dbVars, lookupError, rpcError, weatherResponse, updateError,
                 smsResponse, reportToAnalyze>>

\* The answers of the weather provider: rain, clear sky and drizzle; a 2xx
\* answer without a condition list; 401 with a message, 500 without one, 502
\* with a body that is no JSON; a transport failure.
weatherBody(description, main, temp) ==
  [weather |-> << [description |-> description, main |-> main] >>, main |-> [temp |-> temp]]
WeatherResponses ==
  { [rejects |-> FALSE, ok |-> TRUE, body |-> weatherBody("light rain", "Rain", 27)],
    [rejects |-> FALSE, ok |-> TRUE, body |-> weatherBody("clear sky", "Clear", 31)],
    [rejects |-> FALSE, ok |-> TRUE, body |-> weatherBody("light intensity drizzle", "Drizzle", 24)],
    [rejects |-> FALSE, ok |-> TRUE, body |-> [weather |-> <<>>, main |-> [temp |-> 27]]],
    [rejects |-> FALSE, ok |-> FALSE, body |-> [cod |-> 401, message |-> "Invalid API key."]],
    [rejects |-> FALSE, ok |-> FALSE, body |-> [cod |-> 500]],
    [rejects |-> FALSE, ok |-> FALSE, body |-> Unparseable],
    [rejects |-> TRUE, ok |-> FALSE, body |-> Unparseable] }

\* the weather provider answers: the rest of step 4, then steps 5 and 6
WeatherReturn ==
  /\ pc = "weather"
  /\ \E response \in WeatherResponses :
       LET outcome == weatherCatch(weatherTry(response)) IN
       /\ weatherResponse' = response
       /\ IF outcome.threw
          THEN \* the error leaves handleNewReport and is caught by serve
               /\ respond(StatusBadRequest)
               /\ UNCHANGED <<calls, riskScore, riskLevel, weatherInfo, analysisNotes>>
          ELSE /\ classifyAndUpdate(rainAnalysis([riskScore |-> riskScore,
                                                  analysisNotes |-> analysisNotes], outcome),
                                    outcome.weatherInfo)
               /\ UNCHANGED status
  /\ UNCHANGED <<req, dbVars, lookupError, rpcError, historyError, recentReports,
                 updateError, smsResponse, reportToAnalyze>>

\* the update of the report answers: its error is logged; then the alert
UpdateReturn ==
  /\ pc = "update"
  /\ \E error \in BOOLEAN :
       /\ updateError' = error
       /\ reportRow' = IF error THEN reportRow
                       ELSE LET u == calls.update[Len(calls.update)] IN
                            [risk_level |-> u.risk_level,
                             weather_snapshot |-> u.weather_snapshot,
                             analysis_notes |-> u.analysis_notes]
  /\ IF alerts(riskLevel)
     THEN /\ calls' = [calls EXCEPT !.sms =
                         Append(@, alertMessage(riskLevel, reportToAnalyze.village_name,
                                                analysisNotes))]
          /\ pc' = "sms"
          /\ UNCHANGED status
     ELSE respond(StatusOk) /\ UNCHANGED calls
  /\ UNCHANGED <<req, pre_approved_officials, profileRole, reports, geo, now,
                 lookupError, rpcError, historyError, recentReports, weatherResponse,
                 smsResponse, localVars>>

\* the SMS provider answers 2xx, answers an error, or the transport fails:
\* logged in each case
SmsReturn ==
  /\ pc = "sms"
  /\ \E response \in {"ok", "error", "rejects"} : smsResponse' = response
  /\ respond(StatusOk)
  /\ UNCHANGED <<req, dbVars, calls, lookupError, rpcError, historyError, recentReports,
                 weatherResponse, updateError, localVars>>

Next ==
  \/ ServeOptions
  \/ ServeUnreadable
  \/ ServeUnrouted
  \/ ServeNewUser
  \/ LookupReturn
  \/ RoleUpdateReturn
  \/ ServeNewReport
  \/ RpcReturn
  \/ HistoryReturn
  \/ WeatherReturn
  \/ UpdateReturn
  \/ SmsReturn

Spec == Init /\ [][Next]_vars

(***************************************************************************)
(* The classifier alone, on every score up to MaxScore.                    *)
(***************************************************************************)
InitRiskLevel ==
  /\ req = post("INSERT", "reports", Undefined)
  /\ pre_approved_officials = DefaultAllowList
  /\ geo = NoLocation
  /\ reports = HistoryTable
  /\ now = 10
  /\ pc = "classify"
  /\ riskScore \in 0..MaxScore
  /\ InitRest

\* 5. Determine Final Risk Level
Classify ==
  /\ pc = "classify"
  /\ riskLevel' = riskLevelOf(riskScore)
  /\ pc' = "classified"
  /\ UNCHANGED <<req, status, dbVars, calls, answerVars, reportToAnalyze, riskScore,
                 weatherInfo, analysisNotes>>

SpecRiskLevel == InitRiskLevel /\ [][Classify]_vars

(***************************************************************************)
(* Properties.                                                             *)
(***************************************************************************)
range(seq) == { seq[i] : i \in DOMAIN seq }
occurrences(seq, x) == Cardinality({ i \in DOMAIN seq : seq[i] = x })
isPrefix(s, t) == Len(s) <= Len(t) /\ SubSeq(t, 1, Len(s)) = s
RECURSIVE filterBy(_, _)
filterBy(seq, keep) ==
  IF Len(seq) = 0 THEN <<>>
  ELSE (IF seq[1] \in keep THEN <<seq[1]>> ELSE <<>>) \o filterBy(Tail(seq), keep)

\* the invocation is a run of handleNewReport on a record
reportRun == isInsertOf(req, "reports") /\ req.record # Undefined
\* ... and the history query has answered: signals 1 to 4 are in
scored == reportRun /\ pc \in {"weather", "update", "sms", "done"}
\* ... and it has ended
reportDone == reportRun /\ pc = "done"

Tiers == <<"Normal", "Low", "Warning", "High", "Critical">>
tierRank(t) == CHOOSE i \in 1..5 : Tiers[i] = t
\* the bands as the specification states them
bandOf(score) ==
  CASE score >= 75 -> "Critical"
    [] score >= 50 /\ score <= 74 -> "High"
    [] score >= 25 /\ score <= 49 -> "Warning"
    [] score >= 10 /\ score <= 24 -> "Low"
    [] score >= 0 /\ score <= 9 -> "Normal"

\* the points the specification gives each note
pointsOf(note) ==
  CASE note = "Case velocity is high (3x historical average)." -> 40
    [] note = "High number of cases in children under 5." -> 50
    [] note = "High total case count." -> 30
    [] note = "Moderate total case count." -> 15
    [] note = "Shared water source (Community Well) adds risk." -> 10
    [] note = "Shared water source (River) adds risk." -> 10
    [] note = "Recent rain increases contamination risk." -> 10
RECURSIVE sumPoints(_)
sumPoints(notes) == IF Len(notes) = 0 THEN 0 ELSE pointsOf(notes[1]) + sumPoints(Tail(notes))
\* the score is the sum of the points of the notes
scoreMatchesNotes == riskScore = sumPoints(analysisNotes)

\* the historical window: same village, created_at in [now - 7 days, report.created_at)
windowRows ==
  { i \in DOMAIN reports :
      /\ reports[i].village_name = reportToAnalyze.village_name
      /\ reports[i].created_at >= now - 7
      /\ reports[i].created_at < reportToAnalyze.created_at }
RECURSIVE sumCases(_)
sumCases(S) ==
  IF S = {} THEN 0
  ELSE LET i == CHOOSE j \in S : TRUE IN reports[i].diarrhea_cases + sumCases(S \ {i})
countOf(x) == IF x = Null THEN 0 ELSE x
\* mean > 0 and count > 3 * mean, with mean = sumCases / Cardinality
trendFires ==
  /\ ~historyError
  /\ windowRows # {}
  /\ sumCases(windowRows) > 0
  /\ countOf(reportToAnalyze.diarrhea_cases) * Cardinality(windowRows) > 3 * sumCases(windowRows)
reportTotal ==
  countOf(reportToAnalyze.diarrhea_cases) + countOf(reportToAnalyze.fever_cases)
  + countOf(reportToAnalyze.vomiting_cases)
located ==
  /\ reportToAnalyze.lat # Null /\ reportToAnalyze.lat # 0
  /\ reportToAnalyze.lon # Null /\ reportToAnalyze.lon # 0

\* C1: the score-to-tier mapping is total and monotonic: every score >= 0
\* gets the one tier of its band (>= 75 Critical, 50..74 High, 25..49 Warning,
\* 10..24 Low, 0..9 Normal), and no lower score gets a higher tier.
TierMappingTotalMonotonic ==
  pc = "classified" =>
    /\ riskLevel \in range(Tiers)
    /\ riskLevel = bandOf(riskScore)
    /\ \A lower \in 0..riskScore : tierRank(riskLevelOf(lower)) <= tierRank(riskLevel)
TierMappingWitness == pc = "classified" /\ riskScore = 75 /\ riskLevel = "Critical"

\* C2: the SMS provider is invoked iff the tier is High or Critical, at most
\* once, after the update has answered, whether the update succeeded or not;
\* the update itself is issued once and never retried.
AlertIffHighOrCritical ==
  /\ Len(calls.sms) <= 1
  /\ Len(calls.update) <= 1
  /\ Len(calls.sms) = 1 =>
       /\ riskLevel \in {"High", "Critical"}
       /\ pc \in {"sms", "done"}
       /\ Len(calls.update) = 1
  /\ (pc = "done" /\ calls.rpc = 1) =>
       (Len(calls.sms) = 1 <=> riskLevel \in {"High", "Critical"})
AlertAfterFailedUpdateWitness ==
  reportDone /\ updateError /\ Len(calls.sms) = 1 /\ riskLevel = "High"

\* C3: a run on an (INSERT, reports) record ends with status 200, one update
\* carrying the computed tier, whatever the RPC, the history query, the
\* weather provider and the SMS provider answer; it never ends with 400.
ReportRunSurvivesFailures ==
  /\ reportRun => status # 400
  /\ reportDone =>
       /\ status = 200
       /\ Len(calls.update) = 1
       /\ calls.update[1].id = req.record.id
       /\ calls.update[1].risk_level = riskLevel
       /\ riskLevel = bandOf(riskScore)
AllDependenciesFailWitness ==
  /\ reportDone /\ status = 200
  /\ rpcError /\ historyError /\ updateError
  /\ weatherResponse # NoResponse /\ weatherResponse.rejects
  /\ smsResponse = "rejects"

\* C4: handleNewUser issues the role update (at most one) iff the profile has
\* a non-empty phone number, the allowlist lookup succeeds and some allowlist
\* row carries exactly that number; without a phone number there is no lookup;
\* the role is OFFICIAL only after that update.
profilePhone == textField(req.record, "phone")
allowlisted == \E i \in DOMAIN pre_approved_officials :
                 pre_approved_officials[i].phone_number = profilePhone
RoleUpdateIffAllowlisted ==
  /\ calls.roleUpdate <= 1 /\ calls.lookup <= 1
  /\ calls.lookup = 1 =>
       isInsertOf(req, "profiles") /\ profilePhone # NullText /\ profilePhone # ""
  /\ calls.roleUpdate = 1 => calls.lookup = 1 /\ ~lookupError /\ allowlisted
  /\ (pc = "done" /\ calls.lookup = 1 /\ ~lookupError /\ allowlisted) => calls.roleUpdate = 1
  /\ (pc = "done" /\ isInsertOf(req, "profiles") /\ req.record # Undefined
        /\ profilePhone # NullText /\ profilePhone # "") => calls.lookup = 1
  /\ profileRole = "OFFICIAL" => calls.roleUpdate = 1
  /\ profileRole \in {"ASHA_WORKER", "OFFICIAL"}
PromotedWitness ==
  pc = "done" /\ profileRole = "OFFICIAL" /\ Len(pre_approved_officials) = 2

\* C5: the velocity note is pushed (once, with 40 points) iff the history
\* query succeeded, the window is not empty, its mean is positive and the
\* report's diarrhea count exceeds 3 times the mean; otherwise it is absent.
VelocitySignalExact ==
  scored =>
    /\ occurrences(analysisNotes, "Case velocity is high (3x historical average).")
         = (IF trendFires THEN 1 ELSE 0)
    /\ scoreMatchesNotes
    /\ historyError => recentReports = <<>>
    /\ ~historyError => Len(recentReports) = Cardinality(windowRows)
VelocityWitness ==
  /\ scored /\ trendFires /\ Cardinality(windowRows) = 2
  /\ reportToAnalyze.diarrhea_cases = 7
  /\ riskScore = 40

\* C6: the severity signal adds 30 when total > 15, 15 when 8 < total <= 15,
\* nothing when total <= 8, never both, whatever the other inputs are.
severityPoints ==
  30 * occurrences(analysisNotes, "High total case count.")
  + 15 * occurrences(analysisNotes, "Moderate total case count.")
SeverityBandsExclusive ==
  scored =>
    /\ severityPoints = (IF reportTotal > 15 THEN 30 ELSE IF reportTotal > 8 THEN 15 ELSE 0)
    /\ occurrences(analysisNotes, "High total case count.") <= 1
    /\ riskScore = sumPoints(analysisNotes)
SeverityWitness ==
  /\ reportDone /\ reportTotal = 16 /\ severityPoints = 30
  /\ reportToAnalyze.cases_in_children = 6
  /\ reportToAnalyze.water_source_tested = "River"
  /\ "Recent rain increases contamination risk." \in range(analysisNotes)

\* C7: the weather provider is called (once) iff latitude and longitude are
\* both present and non-zero; otherwise it is never called, the snapshot is
\* "Location could not be processed" and there is no rain note.
WeatherCalledIffLocated ==
  /\ calls.weather <= 1
  /\ calls.weather = 1 => reportRun
  /\ scored =>
       /\ calls.weather = 1 <=> located
       /\ ~located =>
            /\ weatherInfo = "Location could not be processed"
            /\ Len(calls.update) = 1
            /\ calls.update[1].weather_snapshot = "Location could not be processed"
            /\ weatherResponse = NoResponse
            /\ "Recent rain increases contamination risk." \notin range(analysisNotes)
ZeroLongitudeWitness ==
  /\ reportDone /\ reportToAnalyze.lat = 13 /\ reportToAnalyze.lon = 0
  /\ calls.weather = 0 /\ reportRow.weather_snapshot = "Location could not be processed"

\* C8: only (INSERT, profiles) reaches the role assignment and only (INSERT,
\* reports) the scoring pipeline; every other pair issues no call, changes
\* nothing and answers 200; an exception of a routed handler answers 400.
untouched ==
  /\ calls = NoCalls
  /\ profileRole = "ASHA_WORKER"
  /\ reportRow.risk_level = NullText
RoutingFrame ==
  /\ (calls.lookup > 0 \/ calls.roleUpdate > 0) => isInsertOf(req, "profiles")
  /\ (calls.rpc > 0 \/ calls.history > 0 \/ calls.weather > 0
        \/ Len(calls.update) > 0 \/ Len(calls.sms) > 0) => isInsertOf(req, "reports")
  /\ (req.method = "POST" /\ req.parses
        /\ ~isInsertOf(req, "profiles") /\ ~isInsertOf(req, "reports")) =>
       /\ untouched
       /\ pc \in {"start", "done"}
       /\ pc = "done" => status = 200
  /\ (pc = "done" /\ req.record = Undefined
        /\ (isInsertOf(req, "profiles") \/ isInsertOf(req, "reports"))) =>
       status = 400 /\ untouched
  /\ pc = "done" <=> status \in {200, 400}
  /\ status \in {0, 200, 400}
HandlerExceptionWitness ==
  pc = "done" /\ status = 400 /\ isInsertOf(req, "reports") /\ req.record = Undefined

\* C9: after a weather lookup, a non-2xx answer leaves "API Error: " with the
\* provider's message (or "Invalid Key?"), a transport failure leaves "Fetch
\* Error", neither adds the rain note, and the rain note is there only on a
\* 2xx answer whose primary category contains "rain" in any case.
weatherAnswered == reportRun /\ weatherResponse # NoResponse
rainNoted == "Recent rain increases contamination risk." \in range(analysisNotes)
WeatherFailureSnapshots ==
  weatherAnswered =>
    /\ (~weatherResponse.rejects /\ ~weatherResponse.ok) =>
         /\ weatherInfo = "API Error: " \o
              (IF hasField(weatherResponse.body, "message")
               THEN weatherResponse.body.message ELSE "Invalid Key?")
         /\ ~rainNoted
    /\ weatherResponse.rejects => weatherInfo = "Fetch Error" /\ ~rainNoted
    /\ rainNoted =>
         /\ weatherResponse.ok
         /\ includes(toLowerCase(weatherResponse.body.weather[1].main), "rain")

\* C10: the notes only grow, are a duplicate-free subsequence of the order
\* trend, demographic, severity, water, weather (one severity note and one
\* water note at most); the update and the alert carry them joined by single
\* spaces; tier, snapshot and notes are a function of the report and the
\* answers of the history query and the weather provider.
NoteOrder ==
  << "Case velocity is high (3x historical average).",
     "High number of cases in children under 5.",
     "High total case count.",
     "Moderate total case count.",
     "Shared water source (Community Well) adds risk.",
     "Shared water source (River) adds risk.",
     "Recent rain increases contamination risk." >>
joinedBySpaces(n) ==
  CASE Len(n) = 0 -> ""
    [] Len(n) = 1 -> n[1]
    [] Len(n) = 2 -> n[1] \o " " \o n[2]
    [] Len(n) = 3 -> n[1] \o " " \o n[2] \o " " \o n[3]
    [] Len(n) = 4 -> n[1] \o " " \o n[2] \o " " \o n[3] \o " " \o n[4]
    [] Len(n) = 5 -> n[1] \o " " \o n[2] \o " " \o n[3] \o " " \o n[4] \o " " \o n[5]
rainSeen ==
  /\ weatherResponse # NoResponse
  /\ ~weatherResponse.rejects /\ weatherResponse.ok
  /\ weatherResponse.body # Unparseable
  /\ Len(weatherResponse.body.weather) > 0
  /\ weatherResponse.body.weather[1].main \in {"Rain", "rain", "RAIN"}
\* the notes the inputs call for
firing ==
  { n \in range(NoteOrder) :
      \/ n = NoteOrder[1] /\ trendFires
      \/ n = NoteOrder[2] /\ countOf(reportToAnalyze.cases_in_children) > 5
      \/ n = NoteOrder[3] /\ reportTotal > 15
      \/ n = NoteOrder[4] /\ reportTotal > 8 /\ reportTotal <= 15
      \/ n = NoteOrder[5] /\ reportToAnalyze.water_source_tested = "Community Well"
      \/ n = NoteOrder[6] /\ reportToAnalyze.water_source_tested = "River"
      \/ n = NoteOrder[7] /\ rainSeen }
NotesWellFormed ==
  /\ analysisNotes = filterBy(NoteOrder, range(analysisNotes))
  /\ ~(NoteOrder[3] \in range(analysisNotes) /\ NoteOrder[4] \in range(analysisNotes))
  /\ ~(NoteOrder[5] \in range(analysisNotes) /\ NoteOrder[6] \in range(analysisNotes))
  /\ scored => analysisNotes = filterBy(NoteOrder, firing)
  /\ Len(calls.update) = 1 =>
       /\ calls.update[1].analysis_notes = joinedBySpaces(analysisNotes)
       /\ calls.update[1].risk_level = bandOf(sumPoints(filterBy(NoteOrder, firing)))
       /\ calls.update[1].weather_snapshot = weatherInfo
  /\ Len(calls.sms) = 1 =>
       calls.sms[1] = "ALERT [" \o riskLevel \o "]: Outbreak risk in "
                      \o reportToAnalyze.village_name \o ". Analysis: "
                      \o joinedBySpaces(analysisNotes) \o ". Check dashboard immediately."
  /\ (reportDone /\ ~updateError) =>
       reportRow.analysis_notes = joinedBySpaces(analysisNotes)
NotesReproducible ==
  /\ []NotesWellFormed
  /\ [][isPrefix(analysisNotes, analysisNotes')]_vars
FiveNotesWitness ==
  /\ reportDone /\ Len(analysisNotes) = 5 /\ Len(calls.sms) = 1
  /\ reportRow.analysis_notes =
       "Case velocity is high (3x historical average). "
       \o "High number of cases in children under 5. "
       \o "High total case count. "
       \o "Shared water source (River) adds risk. "
       \o "Recent rain increases contamination risk."

====
